---------------------------- MODULE Spec2Model ----------------------------
(***************************************************************************)
(* Model of the two-stage climate data pipeline: munge.py (fixed-width     *)
(* parser, Fahrenheit conversion pass, CSV writer) and analyze.py (the     *)
(* periodic average).  Strings are sequences of one-character strings.     *)
(* Every component has its own variables and its own specification; a      *)
(* specification leaves the variables of the other components untouched.   *)
(***************************************************************************)
EXTENDS Integers, Sequences, FiniteSets, TLC

VARIABLES
    \* parse_fixed_width_data (munge.py)
    pc, start, end, col_len, source, pos, maxsplit, row_number, header, data,
    exc, dest_file,
    \* write_csv (munge.py)
    w_pc, w_data, w_overwrite, w_file, w_exc,
    \* _to_farenheit (munge.py); c_end is the list object that is the
    \* default value of its parameter end, c_visited the cells of the last
    \* call's loop body, c_before the table as it was handed to that call
    c_pc, c_data, c_start, c_end, c_exc, c_visited, c_before,
    \* _display_periodic_avg (analyze.py); records are the rows the reader
    \* has yielded so far, out the averages printed so far
    a_pc, period, print_last, records, year_range, anomaly_sum, out, a_exc

parseVars == <<pc, start, end, col_len, source, pos, maxsplit, row_number,
               header, data, exc, dest_file>>
writeVars == <<w_pc, w_data, w_overwrite, w_file, w_exc>>
convVars == <<c_pc, c_data, c_start, c_end, c_exc, c_visited, c_before>>
aggVars == <<a_pc, period, print_last, records, year_range, anomaly_sum,
             out, a_exc>>
vars == <<parseVars, writeVars, convVars, aggVars>>

(***************************************************************************)
(* Bounds of the model.                                                    *)
(***************************************************************************)
\* largest line number passed as start / end
MaxLine == 3
\* largest col_len passed
MaxCol == 2
\* largest number of characters in the source file
MaxFileLen == 6
\* largest number of fields in a row handed to write_csv
MaxFields == 2
\* largest number of rows in a table handed to write_csv
MaxRows == 2
\* largest number of rows / columns of a table handed to _to_farenheit
MaxConvRows == 2
MaxConvCols == 3
\* the years of the records are 0..MaxYear
MaxYear == 2
\* largest number of records the reader yields
MaxRecords == 4
\* largest period passed
MaxPeriod == 3

Min(a, b) == IF a < b THEN a ELSE b

\* all sequences over S of length at most n
SeqUpTo(S, n) == UNION {[1..k -> S] : k \in 0..n}

(***************************************************************************)
(* Python values of the arguments whose type the code inspects.  A float   *)
(* is modelled by its (integral) numeric value; bool True / False have the *)
(* numeric values 1 / 0.                                                   *)
(***************************************************************************)
PyInt(n) == [type |-> "int", val |-> n]
PyFloat(n) == [type |-> "float", val |-> n]
PyBool(n) == [type |-> "bool", val |-> n]
PyNone == [type |-> "NoneType", val |-> 0]

\* truth value of a Python number or None
Truthy(x) == x.type # "NoneType" /\ x.val # 0

NO_RESTRICTION == 0

\* the absent file / the absent exception
NoFile == <<"<no file>">>
NoExc == "none"

(***************************************************************************)
(* munge.py, _is_postive_integer                                           *)
(***************************************************************************)
_is_postive_integer(x) == x.type = "int" /\ x.val > 0

(***************************************************************************)
(* munge.py, parse_fixed_width_data: the argument checks of lines 108-120. *)
(***************************************************************************)
ColLenRejected(c) ==
    c.type # "NoneType" /\ ~_is_postive_integer(c) /\ c.val # 0

ArgsRejected(s, e, c) ==
    \/ ~_is_postive_integer(s)
    \/ ~_is_postive_integer(e)
    \/ s.val > e.val
    \/ ColLenRejected(c)

(***************************************************************************)
(* The characters of a source file: a token character and the two          *)
(* whitespace characters blank and newline.                                *)
(***************************************************************************)
SourceChars == {"a", " ", "\n"}
IsSpace(ch) == ch = " " \/ ch = "\n"

\* file.readline(): index of the last character of the line starting at i
RECURSIVE LineEnd(_, _)
LineEnd(f, i) ==
    IF i > Len(f) THEN Len(f)
    ELSE IF f[i] = "\n" THEN i
    ELSE LineEnd(f, i + 1)

ReadLine(f, i) == SubSeq(f, i, LineEnd(f, i))

\* position after skipping n lines from position i
RECURSIVE SkipLines(_, _, _)
SkipLines(f, i, n) ==
    IF n = 0 THEN i ELSE SkipLines(f, LineEnd(f, i) + 1, n - 1)

\* first index >= i of s that is not whitespace (Len(s) + 1 if none)
RECURSIVE RunEnd(_, _)
RunEnd(s, i) ==
    IF i > Len(s) \/ ~IsSpace(s[i]) THEN i ELSE RunEnd(s, i + 1)

(***************************************************************************)
(* re.split("[\s]+", s, maxsplit=m): the pieces of s between the first m   *)
(* whitespace runs (all runs when m = 0); after m splits the rest of s is  *)
(* the last piece.  cur is the piece being read, done the splits made.     *)
(***************************************************************************)
RECURSIVE SplitFrom(_, _, _, _, _)
SplitFrom(s, m, i, cur, done) ==
    IF i > Len(s) THEN <<cur>>
    ELSE IF IsSpace(s[i]) /\ (m = 0 \/ done < m)
         THEN <<cur>> \o SplitFrom(s, m, RunEnd(s, i), <<>>, done + 1)
         ELSE SplitFrom(s, m, i + 1, Append(cur, s[i]), done)

ReSplit(s, m) == SplitFrom(s, m, 1, <<>>, 0)

\* munge.py line 138: source_row[:min(len(source_row), maxsplit)]
Truncate(source_row, m) == SubSeq(source_row, 1, Min(Len(source_row), m))

DataRow(line, m) == Truncate(ReSplit(line, m), m)

(***************************************************************************)
(* header is None (modelled <<>>) or a row (modelled <<row>>).             *)
(* munge.py line 141: "if header and len(data_row) != len(header)".        *)
(***************************************************************************)
None == <<>>

\* a length check that is never taken
InconsistentMutant(h, data_row) == FALSE

Inconsistent(h, data_row) ==
    /\ h # None
    /\ Len(h[1]) > 0
    /\ Len(data_row) # Len(h[1])

\* munge.py line 144: "if data_row == header"
IsHeader(h, data_row) == h # None /\ data_row = h[1]

(***************************************************************************)
(* munge.py, write_csv: the text written for a table, ",".join(row) + "\n" *)
(* for every row.                                                          *)
(***************************************************************************)
\* a join that forgets the separator
RECURSIVE JoinMutant(_)
JoinMutant(row) ==
    IF Len(row) = 0 THEN <<>> ELSE row[1] \o JoinMutant(Tail(row))

RECURSIVE Join(_)
Join(row) ==
    IF Len(row) = 0 THEN <<>>
    ELSE IF Len(row) = 1 THEN row[1]
    ELSE row[1] \o <<",">> \o Join(Tail(row))

RECURSIVE CsvText(_)
CsvText(rows) ==
    IF Len(rows) = 0 THEN <<>>
    ELSE Join(rows[1]) \o <<"\n">> \o CsvText(Tail(rows))

\* lines 46-47: the destination exists and may not be overwritten
WriteRefused(file, overwrite) == ~overwrite /\ file # NoFile

(***************************************************************************)
(* munge.py, _to_farenheit: float(entry) and "%.1f" % val.  A cell of the  *)
(* model has at most one digit after the point, so entry * 1.8 is a whole  *)
(* number of hundredths, here tenths * 18, never half way between two      *)
(* tenths.                                                                 *)
(***************************************************************************)
TO_FARENHEIT_COEFFICIENT_TENTHS == 18

DigitChars == <<"0", "1", "2", "3", "4", "5", "6", "7", "8", "9">>
IsDigit(ch) == \E d \in 1..10 : DigitChars[d] = ch
DigitVal(ch) == (CHOOSE d \in 1..10 : DigitChars[d] = ch) - 1

RECURSIVE DigitsVal(_)
DigitsVal(s) ==
    IF Len(s) = 0 THEN 0
    ELSE 10 * DigitsVal(SubSeq(s, 1, Len(s) - 1)) + DigitVal(s[Len(s)])

Unsigned(s) ==
    IF Len(s) >= 1 /\ (s[1] = "-" \/ s[1] = "+") THEN Tail(s) ELSE s

Negative(s) == Len(s) >= 1 /\ s[1] = "-"

DotAt(b) == {i \in 1..Len(b) : b[i] = "."}

\* float(entry) succeeds: [sign] digits [. [digit]] or [sign] . digit
IsFloat(s) ==
    LET b == Unsigned(s)
    IN /\ \A i \in 1..Len(b) : IsDigit(b[i]) \/ b[i] = "."
       /\ Cardinality(DotAt(b)) <= 1
       /\ \E i \in 1..Len(b) : IsDigit(b[i])
       /\ \A i \in DotAt(b) : i >= Len(b) - 1

\* the magnitude of float(entry), in tenths
Tenths(s) ==
    LET b == Unsigned(s)
    IN IF DotAt(b) = {} THEN 10 * DigitsVal(b)
       ELSE LET d == CHOOSE i \in DotAt(b) : TRUE
            IN 10 * DigitsVal(SubSeq(b, 1, d - 1))
               + DigitsVal(SubSeq(b, d + 1, Len(b)))

RECURSIVE IntToStr(_)
IntToStr(n) ==
    IF n < 10 THEN <<DigitChars[n + 1]>>
    ELSE Append(IntToStr(n \div 10), DigitChars[(n % 10) + 1])

\* lines 187-188: "%.1f" % (float(entry) * 1.8)
ToFarenheitText(s) ==
    LET hundredths == Tenths(s) * TO_FARENHEIT_COEFFICIENT_TENTHS
        tenths == (hundredths \div 10)
                  + (IF hundredths % 10 >= 5 THEN 1 ELSE 0)
    IN (IF Negative(s) THEN <<"-">> ELSE <<>>)
       \o IntToStr(tenths \div 10) \o <<".">> \o IntToStr(tenths % 10)

\* line 185: "if not entry.isnumeric" tests the bound method, which is
\* always true, so no entry is ever skipped
SkipEntry(entry) == FALSE

(***************************************************************************)
(* lines 179-180: the bounds written into the list end.  The result is     *)
(* <<end[0], end[1]>>; end[1] is the length of the text of cell (0, 0).    *)
(***************************************************************************)
ResolveEnd(e, t) ==
    <<IF Truthy(e[1]) THEN e[1] ELSE PyInt(Len(t)),
      IF Truthy(e[2]) THEN e[2] ELSE PyInt(Len(t[1][1]))>>

\* lines 182-183: the index pairs of the two loops, in order; the row loop
\* and the column loop both stop at end[1]
LoopCells(st, e) ==
    LET h == IF e[2].val > st[1] THEN e[2].val - st[1] ELSE 0
        w == IF e[2].val > st[2] THEN e[2].val - st[2] ELSE 0
    IN [k \in 1..(h * w) |->
            <<st[1] + ((k - 1) \div w), st[2] + ((k - 1) % w)>>]

\* lines 184-188 for the cells from the k-th on: the table, the exception
\* and the cells visited when the loop ends or raises
RECURSIVE ConvertFrom(_, _, _, _)
ConvertFrom(t, cells, k, seen) ==
    IF k > Len(cells) THEN [data |-> t, exc |-> NoExc, visited |-> seen]
    ELSE LET r == cells[k][1]
             c == cells[k][2]
             now == seen \cup {cells[k]}
         IN IF r >= Len(t) \/ c >= Len(t[r + 1])
            THEN [data |-> t, exc |-> "IndexError", visited |-> now]
            ELSE LET entry == t[r + 1][c + 1]
                 IN IF SkipEntry(entry)
                    THEN ConvertFrom(t, cells, k + 1, now)
                    ELSE IF ~IsFloat(entry)
                    THEN [data |-> t, exc |-> "ValueError", visited |-> now]
                    ELSE ConvertFrom(
                             [t EXCEPT ![r + 1][c + 1] = ToFarenheitText(entry)],
                             cells, k + 1, now)

(***************************************************************************)
(* Argument values and sources of the parser.                              *)
(***************************************************************************)
LineArgs ==
    {PyInt(n) : n \in -1..MaxLine} \cup {PyFloat(1), PyBool(1), PyNone}

ColArgs ==
    {PyNone} \cup {PyInt(n) : n \in -1..MaxCol}
    \cup {PyFloat(0), PyFloat(1), PyBool(0), PyBool(1)}

Sources == SeqUpTo(SourceChars, MaxFileLen)

IdleParse ==
    /\ pc = "idle" /\ start = PyNone /\ end = PyNone /\ col_len = PyNone
    /\ source = NoFile /\ pos = 0 /\ maxsplit = 0 /\ row_number = 0
    /\ header = None /\ data = <<>> /\ exc = NoExc /\ dest_file = NoFile

IdleAgg ==
    /\ a_pc = "idle" /\ period = 0 /\ print_last = FALSE /\ records = <<>>
    /\ year_range = <<>> /\ anomaly_sum = 0 /\ out = <<>> /\ a_exc = NoExc

IdleConv ==
    /\ c_pc = "idle" /\ c_data = <<>> /\ c_start = <<0, 0>>
    /\ c_end = <<PyNone, PyNone>> /\ c_exc = NoExc
    /\ c_visited = {} /\ c_before = <<>>

IdleWrite ==
    /\ w_pc = "idle" /\ w_data = <<>> /\ w_overwrite = FALSE
    /\ w_file = NoFile /\ w_exc = NoExc

(***************************************************************************)
(* parse_fixed_width_data as a state machine: the call, the argument       *)
(* checks, opening the file and skipping start - 1 lines, one step per     *)
(* line of [start, end], and the return (or the write to destination).     *)
(***************************************************************************)
ParseInit ==
    /\ pc = "call"
    /\ start \in LineArgs /\ end \in LineArgs /\ col_len \in ColArgs
    /\ source = NoFile /\ pos = 0 /\ maxsplit = 0 /\ row_number = 0
    /\ header = None /\ data = <<>> /\ exc = NoExc /\ dest_file = NoFile
    /\ IdleWrite /\ IdleConv /\ IdleAgg

\* lines 108-123
Validate ==
    /\ pc = "call"
    /\ IF ArgsRejected(start, end, col_len)
       THEN /\ pc' = "raised" /\ exc' = "ValueError"
            /\ UNCHANGED maxsplit
       ELSE /\ pc' = "open" /\ exc' = NoExc
            /\ maxsplit' = IF Truthy(col_len) THEN col_len.val
                           ELSE NO_RESTRICTION
    /\ UNCHANGED <<start, end, col_len, source, pos, row_number, header,
                   data, dest_file>>
    /\ UNCHANGED <<writeVars, convVars, aggVars>>

\* lines 125-134: the file as found at path; a missing file raises
OpenMissing ==
    /\ pc = "open"
    /\ pc' = "raised" /\ exc' = "FileNotFoundError"
    /\ UNCHANGED <<start, end, col_len, source, pos, maxsplit, row_number,
                   header, data, dest_file>>
    /\ UNCHANGED <<writeVars, convVars, aggVars>>

Open ==
    /\ pc = "open"
    /\ \E f \in Sources :
          /\ source' = f
          /\ pos' = SkipLines(f, 1, start.val - 1)
    /\ row_number' = start.val
    /\ header' = None
    /\ data' = <<>>
    /\ pc' = "loop"
    /\ UNCHANGED <<start, end, col_len, maxsplit, exc, dest_file>>
    /\ UNCHANGED <<writeVars, convVars, aggVars>>

\* lines 135-149: one iteration of the loop over [start, end]
ParseLine ==
    /\ pc = "loop"
    /\ row_number <= end.val
    /\ LET line == ReadLine(source, pos)
           data_row == DataRow(line, maxsplit)
           skip == Inconsistent(header, data_row) \/ IsHeader(header, data_row)
       IN /\ pos' = LineEnd(source, pos) + 1
          /\ header' = IF ~skip /\ row_number = start.val
                       THEN <<data_row>> ELSE header
          /\ data' = IF skip THEN data ELSE Append(data, data_row)
    /\ row_number' = row_number + 1
    /\ UNCHANGED <<pc, start, end, col_len, source, maxsplit, exc, dest_file>>
    /\ UNCHANGED <<writeVars, convVars, aggVars>>

\* lines 151-152: no destination, the table is returned
ParseReturn ==
    /\ pc = "loop"
    /\ row_number > end.val
    /\ pc' = "returned"
    /\ UNCHANGED <<start, end, col_len, source, pos, maxsplit, row_number,
                   header, data, exc, dest_file>>
    /\ UNCHANGED <<writeVars, convVars, aggVars>>

\* lines 154-155: a destination is given, the table is written with write_csv
ParseWrite ==
    /\ pc = "loop"
    /\ row_number > end.val
    /\ \E overwrite \in BOOLEAN, old \in {NoFile, <<>>} :
          IF WriteRefused(old, overwrite)
          THEN /\ pc' = "raised" /\ exc' = "FileExistsError"
               /\ dest_file' = old
          ELSE /\ pc' = "written" /\ exc' = NoExc
               /\ dest_file' = CsvText(data)
    /\ UNCHANGED <<start, end, col_len, source, pos, maxsplit, row_number,
                   header, data>>
    /\ UNCHANGED <<writeVars, convVars, aggVars>>

ParseNext ==
    \/ Validate
    \/ OpenMissing
    \/ Open
    \/ ParseLine
    \/ ParseReturn
    \/ ParseWrite

SpecParse == ParseInit /\ [][ParseNext]_vars

(***************************************************************************)
(* write_csv as a state machine: one call on a table, on a destination     *)
(* that exists or not.                                                     *)
(***************************************************************************)
Fields == {<<>>, <<"a">>, <<",">>, <<"\n">>}
Rows == SeqUpTo(Fields, MaxFields)
Tables == SeqUpTo(Rows, MaxRows)

WriteInit ==
    /\ w_pc = "idle" /\ w_data = <<>> /\ w_overwrite = FALSE
    /\ w_file \in {NoFile, <<"a", "\n">>}
    /\ w_exc = NoExc
    /\ IdleParse /\ IdleConv /\ IdleAgg

\* lines 45-52
WriteCsv ==
    /\ w_pc = "idle"
    /\ \E d \in Tables, overwrite \in BOOLEAN :
          /\ w_data' = d
          /\ w_overwrite' = overwrite
          /\ IF WriteRefused(w_file, overwrite)
             THEN /\ w_pc' = "raised" /\ w_exc' = "FileExistsError"
                  /\ UNCHANGED w_file
             ELSE /\ w_pc' = "written" /\ w_exc' = NoExc
                  /\ w_file' = CsvText(d)
    /\ UNCHANGED <<parseVars, convVars, aggVars>>

WriteNext == WriteCsv

SpecWrite == WriteInit /\ [][WriteNext]_vars

(***************************************************************************)
(* _to_farenheit as a state machine: calls with end left at its default,   *)
(* one after another in the same process, each on a table of its own.      *)
(* The cell (0, 0) is a label of length 0 to 4, the other cells are a      *)
(* number or a marker of a missing value.                                  *)
(***************************************************************************)
CornerCells ==
    {<<>>, <<"5">>, <<"Y", "r">>, <<"*", "*", "*">>, <<"Y", "e", "a", "r">>}
Cells == {<<"-", "1", ".", "5">>, <<"*", "*", "*">>}

ConvTables ==
    UNION {
        {[i \in 1..r |-> [j \in 1..c |->
              IF i = 1 /\ j = 1 THEN corner ELSE body[i][j]]] :
            corner \in CornerCells, body \in [1..r -> [1..c -> Cells]]} :
        r \in 0..MaxConvRows, c \in 0..MaxConvCols}

StartArgs == {<<0, 0>>, <<1, 1>>}

ConvInit == IdleConv /\ IdleParse /\ IdleWrite /\ IdleAgg

\* lines 176-190: the call on table t with start st, e being the list end;
\* the result holds the list end, the table, the exception and the cells
\* visited when the call is over
_to_farenheit(e, t, st) ==
    IF Len(t) = 0 \/ Len(t[1]) = 0
    THEN [end |-> e, data |-> t, exc |-> NoExc, visited |-> {}]
    ELSE LET bounds == ResolveEnd(e, t)
             res == ConvertFrom(t, LoopCells(st, bounds), 1, {})
         IN [end |-> bounds, data |-> res.data, exc |-> res.exc,
             visited |-> res.visited]

\* a call with end left at its default, the list c_end
ToFarenheit ==
    \E t \in ConvTables, st \in StartArgs :
        \E res \in {_to_farenheit(c_end, t, st)} :
           /\ c_before' = t
           /\ c_start' = st
           /\ c_end' = res.end
           /\ c_data' = res.data
           /\ c_exc' = res.exc
           /\ c_visited' = res.visited
           /\ c_pc' = IF res.exc = NoExc THEN "returned" ELSE "raised"
           /\ UNCHANGED <<parseVars, writeVars, aggVars>>

ConvNext == ToFarenheit

SpecConvert == ConvInit /\ [][ConvNext]_vars

(***************************************************************************)
(* _display_periodic_avg as a state machine: the reader yields one row at  *)
(* a time (int(row["Year"]), float(row["J-D"]) are the year and the value  *)
(* of the record) or is exhausted.  year_range is the dict: <<>> when      *)
(* empty, else <<[start, end]>>.  A printed average is kept as the sum and *)
(* the divisor of the division that made it.                               *)
(***************************************************************************)
Years == 0..MaxYear
Values == {1, 2}
Periods == 0..MaxPeriod

AggInit ==
    /\ a_pc = "loop"
    /\ period \in Periods
    /\ print_last \in BOOLEAN
    /\ records = <<>>
    /\ year_range = <<>>
    /\ anomaly_sum = 0
    /\ out = <<>>
    /\ a_exc = NoExc
    /\ IdleParse /\ IdleWrite /\ IdleConv

\* line 49: "if this_year - year_range['start'] + 1 == period"
WindowFullMutant(this_year, first_year, p) == this_year - first_year = p

WindowFull(this_year, first_year, p) == this_year - first_year + 1 = p

\* line 58: the divisor of the average of the last interval
TrailingDivisorMutant(yr) == yr.end - yr.start

TrailingDivisor(yr) == yr.end - yr.start + 1

\* lines 38-54: one iteration of "for row in reader"
AggRow ==
    /\ a_pc = "loop"
    /\ Len(records) < MaxRecords
    /\ \E this_year \in Years, curr_anomaly \in Values :
          LET first_year == IF year_range = <<>> THEN this_year
                            ELSE year_range[1].start
              total == anomaly_sum + curr_anomaly
          IN /\ records' = Append(records,
                                  [year |-> this_year, value |-> curr_anomaly])
             /\ IF WindowFull(this_year, first_year, period)
                THEN IF period = 0
                     THEN /\ a_pc' = "raised"
                          /\ a_exc' = "ZeroDivisionError"
                          /\ anomaly_sum' = total
                          /\ year_range' =
                                 <<[start |-> first_year, end |-> this_year]>>
                          /\ UNCHANGED out
                     ELSE /\ out' = Append(out,
                                 [start |-> first_year, end |-> this_year,
                                  sum |-> total, div |-> period])
                          /\ anomaly_sum' = 0
                          /\ year_range' = <<>>
                          /\ UNCHANGED <<a_pc, a_exc>>
                ELSE /\ anomaly_sum' = total
                     /\ year_range' =
                            <<[start |-> first_year, end |-> this_year]>>
                     /\ UNCHANGED <<a_pc, a_exc, out>>
    /\ UNCHANGED <<period, print_last>>
    /\ UNCHANGED <<parseVars, writeVars, convVars>>

\* lines 56-62: the reader is exhausted
AggEnd ==
    /\ a_pc = "loop"
    /\ IF year_range # <<>> /\ print_last
       THEN IF TrailingDivisor(year_range[1]) = 0
            THEN /\ a_pc' = "raised" /\ a_exc' = "ZeroDivisionError"
                 /\ UNCHANGED out
            ELSE /\ a_pc' = "done"
                 /\ out' = Append(out,
                        [start |-> year_range[1].start,
                         end |-> year_range[1].end,
                         sum |-> anomaly_sum,
                         div |-> TrailingDivisor(year_range[1])])
                 /\ UNCHANGED a_exc
       ELSE /\ a_pc' = "done"
            /\ UNCHANGED <<out, a_exc>>
    /\ UNCHANGED <<period, print_last, records, year_range, anomaly_sum>>
    /\ UNCHANGED <<parseVars, writeVars, convVars>>

AggNext ==
    \/ AggRow
    \/ AggEnd

SpecAggregate == AggInit /\ [][AggNext]_vars

(***************************************************************************)
(* Notions the claims are stated with.                                     *)
(***************************************************************************)
\* the whitespace-separated tokens of a line, in order
RECURSIVE TokensFrom(_, _, _)
TokensFrom(s, i, cur) ==
    IF i > Len(s) THEN (IF cur = <<>> THEN <<>> ELSE <<cur>>)
    ELSE IF IsSpace(s[i])
         THEN (IF cur = <<>> THEN <<>> ELSE <<cur>>) \o TokensFrom(s, i + 1, <<>>)
         ELSE TokensFrom(s, i + 1, Append(cur, s[i]))

Tokens(s) == TokensFrom(s, 1, <<>>)

\* the line the parser reads as line number start
HeaderLine == ReadLine(source, SkipLines(source, 1, start.val - 1))

ParseRunning == pc \in {"loop", "returned", "written"}

\* the text of a file cut into lines, line terminators removed
RECURSIVE FileLines(_, _)
FileLines(f, i) ==
    IF i > Len(f) THEN <<>>
    ELSE LET e == LineEnd(f, i)
         IN <<SubSeq(f, i, IF f[e] = "\n" THEN e - 1 ELSE e)>>
            \o FileLines(f, e + 1)

\* a line split on every ","
RECURSIVE CommaSplit(_, _, _)
CommaSplit(s, i, cur) ==
    IF i > Len(s) THEN <<cur>>
    ELSE IF s[i] = "," THEN <<cur>> \o CommaSplit(s, i + 1, <<>>)
    ELSE CommaSplit(s, i + 1, Append(cur, s[i]))

ReadBack(f) ==
    LET lines == FileLines(f, 1)
    IN [i \in 1..Len(lines) |-> CommaSplit(lines[i], 1, <<>>)]

HasChar(t, ch) ==
    \E i \in 1..Len(t) : \E j \in 1..Len(t[i]) :
        \E k \in 1..Len(t[i][j]) : t[i][j][k] = ch

(***************************************************************************)
(* C1: at every point of a parse, every row appended to the table so far   *)
(* has exactly as many fields as the table's first row, the header.        *)
(***************************************************************************)
C1_RowsMatchHeader ==
    ParseRunning => \A i \in 1..Len(data) : Len(data[i]) = Len(data[1])

\* a finished parse that kept a second row of two fields and dropped a line
C1_Witness ==
    /\ pc = "returned"
    /\ Len(data) = 2
    /\ Len(data[1]) = 2
    /\ Len(data) < end.val - start.val + 1

(***************************************************************************)
(* C3: when col_len is 0 or omitted, the parse puts no limit on the split  *)
(* and keeps every field: the header of the returned table has one field   *)
(* per whitespace-separated token of the header line.                      *)
(***************************************************************************)
C3_NoLimitKeepsAllFields ==
    (pc = "returned" /\ (col_len = PyNone \/ col_len = PyInt(0)))
        => (Len(data) >= 1 /\ data[1] = Tokens(HeaderLine))

(***************************************************************************)
(* C6: the parse raises ValueError exactly when start is not a positive    *)
(* integer, or end is not, or start > end, or col_len is given and is      *)
(* negative or not an integer (a float such as 0.0 and a bool are not).    *)
(***************************************************************************)
C6_Invalid(s, e, c) ==
    \/ ~(s.type = "int" /\ s.val > 0)
    \/ ~(e.type = "int" /\ e.val > 0)
    \/ s.val > e.val
    \/ (c.type # "NoneType" /\ (c.type # "int" \/ c.val < 0))

C6_RejectsExactlyInvalid ==
    pc # "call" =>
        ((pc = "raised" /\ exc = "ValueError") <=> C6_Invalid(start, end, col_len))

(***************************************************************************)
(* C9: with col_len n >= 1, the row built from every line read in          *)
(* [start, end] is the line's first min(n, k) tokens, k the number of      *)
(* whitespace-separated tokens of the line: no field is the empty string.  *)
(***************************************************************************)
C9_RowIsFirstTokens ==
    (pc = "loop" /\ row_number <= end.val /\ maxsplit >= 1) =>
        LET line == ReadLine(source, pos)
            toks == Tokens(line)
        IN DataRow(line, maxsplit)
               = SubSeq(toks, 1, Min(maxsplit, Len(toks)))

(***************************************************************************)
(* C4: a table without commas, written by write_csv and read back line by  *)
(* line with each line split on ",", is the table that was written.        *)
(***************************************************************************)
C4_RoundTrip ==
    (w_pc = "written" /\ ~HasChar(w_data, ","))
        => ReadBack(w_file) = w_data

\* C4 as amended: moreover no field holds a line break and no row is empty
C4_RoundTripAmended ==
    (/\ w_pc = "written"
     /\ ~HasChar(w_data, ",")
     /\ ~HasChar(w_data, "\n")
     /\ \A i \in 1..Len(w_data) : Len(w_data[i]) >= 1)
        => ReadBack(w_file) = w_data

\* a written table of two rows, one of two fields, with an empty field
C4_Witness ==
    /\ w_pc = "written"
    /\ ~HasChar(w_data, ",") /\ ~HasChar(w_data, "\n")
    /\ Len(w_data) = 2
    /\ \A i \in 1..2 : Len(w_data[i]) >= 1
    /\ Len(w_data[1]) = 2
    /\ w_data[1][2] = <<>>
    /\ w_data[2] # w_data[1]

(***************************************************************************)
(* Notions of the claims about the conversion pass and the average.        *)
(***************************************************************************)
NRows(t) == Len(t)
NCols(t) == IF Len(t) = 0 THEN 0 ELSE Len(t[1])

\* the cells below the header row and right of the first column
InnerCells(t) ==
    {<<r, c>> : r \in 1..(NRows(t) - 1), c \in 1..(NCols(t) - 1)}

\* the years of the records are y0, y0 + 1, y0 + 2, ...
Consecutive(rs) == \A i \in 2..Len(rs) : rs[i].year = rs[i - 1].year + 1

NonDecreasing(rs) == \A i \in 2..Len(rs) : rs[i].year >= rs[i - 1].year

RECURSIVE SumValues(_, _, _)
SumValues(rs, lo, hi) ==
    IF lo > hi THEN 0 ELSE rs[lo].value + SumValues(rs, lo + 1, hi)

\* the windows of n consecutive-year records: n \div p full ones, then the
\* partial one if asked for and not empty
ExpectedWindows(rs, p, trailing) ==
    LET n == Len(rs)
        full == [i \in 1..(n \div p) |->
                    [start |-> rs[1].year + (i - 1) * p,
                     end |-> rs[1].year + (i - 1) * p + p - 1,
                     sum |-> SumValues(rs, (i - 1) * p + 1, i * p),
                     div |-> p]]
    IN IF trailing /\ n % p # 0
       THEN Append(full,
                [start |-> rs[1].year + (n \div p) * p,
                 end |-> rs[1].year + n - 1,
                 sum |-> SumValues(rs, (n \div p) * p + 1, n),
                 div |-> n % p])
       ELSE full

(***************************************************************************)
(* C2: for a period p >= 1 and n records of consecutive years, the         *)
(* averages printed are the n div p full windows in order, each the sum of *)
(* its own p values over p, then the partial window over n mod p exactly   *)
(* when print_last is set and n mod p is not 0.                            *)
(***************************************************************************)
C2_WindowsOfConsecutiveYears ==
    (a_pc = "done" /\ period >= 1 /\ Consecutive(records))
        => (a_exc = NoExc /\ out = ExpectedWindows(records, period, print_last))

\* a full window of two years followed by a partial window of one
C2_Witness ==
    /\ a_pc = "done" /\ period = 2 /\ print_last
    /\ Len(records) = 3 /\ Consecutive(records)
    /\ Len(out) = 2 /\ out[2].div = 1

(***************************************************************************)
(* C5: the average of an empty sequence of records raises ValueError.      *)
(***************************************************************************)
C5_EmptyRaisesValueError ==
    (a_pc # "loop" /\ records = <<>>) => a_exc = "ValueError"

(***************************************************************************)
(* C10: whatever the order of the years, with a period >= 1 no average is  *)
(* computed with a divisor below 1: no division by zero is raised.         *)
(***************************************************************************)
C10_DivisorAtLeastOne ==
    period >= 1 =>
        (/\ a_exc # "ZeroDivisionError"
         /\ \A i \in 1..Len(out) : out[i].div >= 1)

\* C10 as amended: the same for records whose years never decrease
C10_DivisorAtLeastOneAmended ==
    (period >= 1 /\ NonDecreasing(records)) =>
        (/\ a_exc # "ZeroDivisionError"
         /\ \A i \in 1..Len(out) : out[i].div >= 1)

\* a repeated year and a gap, ended by a partial window
C10_Witness ==
    /\ a_pc = "done" /\ period >= 1 /\ print_last
    /\ Len(records) = 3 /\ NonDecreasing(records)
    /\ records[2].year = records[1].year
    /\ records[3].year > records[2].year + 1
    /\ Len(out) >= 1 /\ out[Len(out)].end = records[3].year
    /\ out[Len(out)].div # period

(***************************************************************************)
(* C7: a call with start = (1, 1) and end left at its default visits       *)
(* exactly the cells (r, c) with 1 <= r < rows and 1 <= c < columns of the *)
(* table of this call, and leaves row 0 and column 0 as they were.         *)
(***************************************************************************)
C7_DefaultRegionIsInnerCells ==
    (c_pc # "idle" /\ c_start = <<1, 1>>) =>
        /\ c_visited = InnerCells(c_before)
        /\ \A i \in 1..Len(c_before) : \A j \in 1..Len(c_before[i]) :
              (i = 1 \/ j = 1) => c_data[i][j] = c_before[i][j]

(***************************************************************************)
(* C8: a call never raises; every cell of the table that is not a number   *)
(* keeps its text.                                                         *)
(***************************************************************************)
C8_NeverRaises ==
    c_pc # "idle" =>
        /\ c_exc = NoExc
        /\ \A i \in 1..Len(c_before) : \A j \in 1..Len(c_before[i]) :
              ~IsFloat(c_before[i][j]) => c_data[i][j] = c_before[i][j]

=============================================================================
